---- MODULE Spec2Model ----
(***************************************************************************)
(* Model of agent.py: the OCR tool, the two agent factories, the start-up  *)
(* loading of metadata.jsonl, the BM25 answer retriever tool and main().   *)
(* Strings are sequences of one-character strings where the code works on  *)
(* characters (the final-answer extraction) and sequences of words where   *)
(* the code only concatenates or joins them (document texts).              *)
(***************************************************************************)
EXTENDS Integers, Sequences, FiniteSets, TLC

VARIABLES
    pc,          \* position of the script: load, parse, docs, index, tool, main, run, post, print, done, raised
    file,        \* content of ./metadata.jsonl: a sequence of tokens (JSON object texts and "\n")
    json_list,   \* list(f): the physical lines of the file
    json_QA,     \* the parsed records (dicts)
    docs,        \* the Document list
    index,       \* corpus held by bm25_retriever (<<>> before it is built, then <<corpus>>)
    builds,      \* number of times BM25Retriever.from_defaults has run
    agent,       \* the agent main() built with create_agent (<<>> before)
    runs,        \* number of agent.run invocations
    calls,       \* number of get_answer_info_retriever calls made so far
    lastQuery,   \* query of the latest get_answer_info_retriever call
    lastRanking, \* the order in which the scores rank the corpus for it
    lastResults, \* what bm25_retriever.retrieve returned for it (doc positions, ranked)
    lastReturn,  \* the string get_answer_info_retriever returned for it
    response,    \* what agent.run returned (<<>> before, then <<response>>)
    answer,      \* the extracted final answer
    stdout,      \* the lines printed so far
    err,         \* the exception that ended the process ("" when none)
    ocrEnv,      \* what the file system and the OCR engine do for the latest OCR call
    ocrOut       \* outcome of the latest extract_text_from_image call

vars == <<pc, file, json_list, json_QA, docs, index, builds, agent,
          runs, calls, lastQuery, lastRanking, lastResults, lastReturn, response, answer,
          stdout, err, ocrEnv, ocrOut>>

(***************************************************************************)
(* Bounds of the model.                                                    *)
(***************************************************************************)
MaxPieces == 5      \* a response text is made of at most this many pieces
MaxRecords == 3     \* the input file holds at most this many lines
MaxCalls == 2       \* tool calls the agent runtime makes during one run
MaxOcrLen == 2      \* characters of a text the OCR engine reads from an image

(***************************************************************************)
(* Python string operations, on sequences of characters.                   *)
(***************************************************************************)
Whitespace == {" ", "\n", "\t", "\r"}

\* the literal "FINAL ANSWER:" of main
Marker == <<"F", "I", "N", "A", "L", " ", "A", "N", "S", "W", "E", "R", ":">>

Last(s) == s[Len(s)]

OccursAt(s, p, i) == /\ i >= 1
                     /\ i + Len(p) - 1 <= Len(s)
                     /\ SubSeq(s, i, i + Len(p) - 1) = p

\* str.find(p, i): the lowest position >= i where p occurs, 0 when there is none
RECURSIVE Find(_, _, _)
Find(s, p, i) ==
    IF i + Len(p) - 1 > Len(s) THEN 0
    ELSE IF OccursAt(s, p, i) THEN i
    ELSE Find(s, p, i + 1)

\* p in s
Contains(s, p) == Find(s, p, 1) # 0

\* s.split(sep): the pieces between the occurrences of sep, found left to right
RECURSIVE Split(_, _)
Split(s, sep) ==
    LET i == Find(s, sep, 1)
    IN  IF i = 0 THEN <<s>>
        ELSE <<SubSeq(s, 1, i - 1)>> \o Split(SubSeq(s, i + Len(sep), Len(s)), sep)

RECURSIVE LStrip(_)
LStrip(s) == IF s # <<>> /\ s[1] \in Whitespace THEN LStrip(Tail(s)) ELSE s

RECURSIVE RStrip(_)
RStrip(s) == IF s # <<>> /\ Last(s) \in Whitespace
             THEN RStrip(SubSeq(s, 1, Len(s) - 1)) ELSE s

\* variant: only the leading whitespace is removed
StripLeadingOnly(s) == LStrip(s)

\* s.strip()
Strip(s) == RStrip(LStrip(s))

\* variant: the text after the first marker is kept
ExtractAfterFirstMarker(raw) ==
    IF Contains(raw, Marker)
    THEN Strip(SubSeq(raw, Find(raw, Marker, 1) + Len(Marker), Len(raw)))
    ELSE Strip(raw)

\* the answer extraction of main: the text after the last marker, or the
\* whole text, stripped
ExtractAnswer(raw) ==
    IF Contains(raw, Marker)
    THEN Strip(Last(Split(raw, Marker)))
    ELSE Strip(raw)

\* "\n\n".join(list) and the like, on sequences of words
RECURSIVE Join(_, _)
Join(list, sep) ==
    IF list = <<>> THEN <<>>
    ELSE IF Len(list) = 1 THEN list[1]
    ELSE list[1] \o sep \o Join(Tail(list), sep)

\* list[:n]
Take(list, n) == SubSeq(list, 1, IF Len(list) < n THEN Len(list) ELSE n)

(***************************************************************************)
(* The input file.  A token is the text of one JSON object (its members,   *)
(* in the order they are written) or a line break.  Every JSON value of    *)
(* the model is a string, held as a sequence of words.                     *)
(***************************************************************************)
NL == [kind |-> "nl", members |-> <<>>]
ObjText(members) == [kind |-> "obj", members |-> members]

\* variant: a last line without line break is dropped
RECURSIVE LinesTerminatedOnly(_)
LinesTerminatedOnly(f) ==
    IF f = <<>> THEN <<>>
    ELSE LET brk == {i \in 1..Len(f) : f[i] = NL}
         IN  IF brk = {} THEN <<>>
             ELSE LET i == CHOOSE k \in brk : \A m \in brk : k <= m
                  IN  <<SubSeq(f, 1, i)>> \o LinesTerminatedOnly(SubSeq(f, i + 1, Len(f)))

\* list(f): the lines of the file, each with its line break
RECURSIVE Lines(_)
Lines(f) ==
    IF f = <<>> THEN <<>>
    ELSE LET brk == {i \in 1..Len(f) : f[i] = NL}
         IN  IF brk = {} THEN <<f>>
             ELSE LET i == CHOOSE k \in brk : \A m \in brk : k <= m
                  IN  <<SubSeq(f, 1, i)>> \o Lines(SubSeq(f, i + 1, Len(f)))

\* json.loads accepts one value between optional whitespace
JsonValues(line) == SelectSeq(line, LAMBDA t : t # NL)
JsonDecodes(line) == Len(JsonValues(line)) = 1

\* json.loads of an object: a dict; of a repeated key the last member wins
JsonLoads(line) ==
    LET ms == JsonValues(line)[1].members
        keys == {ms[i][1] : i \in 1..Len(ms)}
        lastOf(k) == CHOOSE i \in 1..Len(ms) :
                        /\ ms[i][1] = k
                        /\ \A j \in 1..Len(ms) : ms[j][1] = k => j <= i
    IN  [k \in keys |-> ms[lastOf(k)][2]]

\* the keys the Document comprehension reads
DocKeys == {"Final answer", "task_id", "Question"}

\* Document(text=f"Final Answer: {...}", metadata={task_id, question})
MakeDocument(sample) ==
    [text |-> <<"Final", "Answer:">> \o sample["Final answer"],
     task_id |-> sample["task_id"],
     question |-> sample["Question"]]

RECURSIVE MakeDocs(_)
MakeDocs(list) ==
    IF list = <<>> THEN <<>> ELSE <<MakeDocument(list[1])>> \o MakeDocs(Tail(list))

(***************************************************************************)
(* bm25_retriever.  BM25Retriever.from_defaults(nodes=docs) is given no    *)
(* similarity_top_k, so the retriever keeps the library default, and       *)
(* retrieve() returns the similarity_top_k best-scored nodes of its corpus *)
(* without a score threshold.  A node's score is positive exactly when its *)
(* content (metadata and text) shares a term with the query; the order     *)
(* among nodes that all share a term, or that all share none, is the       *)
(* library's and is left open here.                                        *)
(***************************************************************************)
similarity_top_k == 2

\* the tokenizer lower-cases a word and drops its punctuation
Tokenize(w) ==
    CASE w = "Final" -> "final"
      [] w = "Answer:" -> "answer"
      [] w = "task_id:" -> "task_id"
      [] w = "question:" -> "question"
      [] OTHER -> w

Terms(words) == {Tokenize(words[i]) : i \in 1..Len(words)}

\* what the retriever indexes of a node: its metadata lines and its text
NodeContent(doc) ==
    <<"task_id:">> \o doc.task_id \o <<"question:">> \o doc.question \o doc.text

SharesTerm(query, doc) == Terms(query) \cap Terms(NodeContent(doc)) # {}

\* the orders in which the scores of a query can rank the corpus
Rankings(corpus, query) ==
    LET N == Len(corpus)
    IN  {r \in [1..N -> 1..N] :
            /\ \A i, j \in 1..N : i # j => r[i] # r[j]
            /\ \A i, j \in 1..N :
                  (i < j /\ SharesTerm(query, corpus[r[j]]))
                      => SharesTerm(query, corpus[r[i]])}

\* bm25_retriever.retrieve(query), for one ranking
Retrieve(ranking) == Take(ranking, similarity_top_k)

NoMatch == <<"No matching guest information found.">>

\* get_answer_info_retriever, given what retrieve returned
AnswerInfo(corpus, results) ==
    IF results # <<>>
    THEN Join([i \in 1..Len(Take(results, 3)) |-> corpus[results[i]].text],
              <<"\n\n">>)
    ELSE NoMatch

(***************************************************************************)
(* The two agent factories.                                                *)
(***************************************************************************)
RetrieverTool == "get_answer_info_retriever"
OcrTool == "extract_text_from_image"

\* create_tools_agent: the tool specs' tools and the OCR function
create_tools_agent(llm_model) ==
    [llm |-> [model |-> llm_model, max_tokens |-> "default"],
     tools |-> <<"arxiv", "wikipedia", "tavily", "code_interpreter", OcrTool>>,
     system_prompt |-> "SYSTEM_PROMPT_TEMPLATE"]

\* variant: create_agent hands over the tools of create_tools_agent as well
create_agent_all_tools(llm_model) ==
    [llm |-> [model |-> llm_model, max_tokens |-> "4096"],
     tools |-> create_tools_agent(llm_model).tools \o <<RetrieverTool>>,
     system_prompt |-> "Answer the question very precisely"]

\* create_agent: the retriever tool alone
create_agent(llm_model) ==
    [llm |-> [model |-> llm_model, max_tokens |-> "4096"],
     tools |-> <<RetrieverTool>>,
     system_prompt |-> "Answer the question very precisely"]

(***************************************************************************)
(* extract_text_from_image.                                                *)
(***************************************************************************)
\* the base class of each exception class that opening or OCR can raise
BaseClass(c) ==
    CASE c = "FileNotFoundError" -> "OSError"
      [] c = "UnidentifiedImageError" -> "OSError"
      [] c = "TesseractNotFoundError" -> "OSError"
      [] c = "TesseractError" -> "RuntimeError"
      [] c = "OSError" -> "Exception"
      [] c = "RuntimeError" -> "Exception"
      [] c = "Exception" -> "BaseException"
      [] OTHER -> ""

RECURSIVE IsSubclass(_, _)
IsSubclass(c, b) == IF c = b THEN TRUE
                    ELSE IF c = "" THEN FALSE
                    ELSE IsSubclass(BaseClass(c), b)

\* variant: except OSError as e
CaughtOSErrorOnly(exc) == IsSubclass(exc, "OSError")

\* except Exception as e
Caught(exc) == IsSubclass(exc, "Exception")

OkLabel == "Extracted text from image:\n\n"
ErrLabel == "Error extracting text from image: "

\* env.open is what Image.open does for the path, env.ocr what
\* pytesseract.image_to_string does for the opened image
extract_text_from_image(env) ==
    LET failure == IF env.open.exc # "" THEN env.open
                   ELSE IF env.ocr.exc # "" THEN env.ocr
                   ELSE [exc |-> "", text |-> <<>>]
    IN  IF failure.exc = ""
        THEN [kind |-> "return", value |-> <<OkLabel>> \o env.ocr.text]
        ELSE IF Caught(failure.exc)
        THEN [kind |-> "return", value |-> <<ErrLabel>> \o failure.text]
        ELSE [kind |-> "raise", value |-> <<failure.exc>>]

(***************************************************************************)
(* Inputs.                                                                 *)
(***************************************************************************)
RECURSIVE Flatten(_)
Flatten(ss) == IF ss = <<>> THEN <<>> ELSE ss[1] \o Flatten(Tail(ss))

SeqsUpTo(S, n) == UNION {[1..k -> S] : k \in 0..n}

TaskIds == <<"t1", "t2", "t3", "t4", "t5", "t6">>
AnswerWords == <<"a1", "a2", "a3", "a4", "a5", "a6">>
Questions == {<<"apple">>, <<"pie">>}
Queries == Questions \cup {<<"zebra">>}

Member(k, v) == <<k, v>>

\* one line of metadata.jsonl as the benchmark writes it
RecordText(t, q, a) ==
    ObjText(<<Member("task_id", <<t>>), Member("Question", q),
              Member("Final answer", <<a>>)>>)

\* files of the whole-program specification: line i holds task i, one of
\* the questions and the answer of task i
Files ==
    {Flatten([i \in 1..Len(qs) |->
                 <<RecordText(TaskIds[i], qs[i], AnswerWords[i]), NL>>]) :
        qs \in SeqsUpTo(Questions, MaxRecords)}

\* lines of the loading specification: the members in another order and
\* with a key the program does not read, a repeated key, a missing key,
\* an empty line
LoadLines ==
    {<<RecordText(t, <<"apple">>, a)>> : t \in {"t1", "t2"}, a \in {"a1", "a2"}}
    \cup {<<ObjText(<<Member("Final answer", <<"a3">>), Member("Level", <<"1">>),
                      Member("Question", <<"pie">>), Member("task_id", <<"t3">>)>>)>>,
          <<ObjText(<<Member("task_id", <<"t1">>), Member("Question", <<"pie">>),
                      Member("Final answer", <<"a1">>), Member("task_id", <<"t2">>)>>)>>,
          <<ObjText(<<Member("task_id", <<"t1">>), Member("Question", <<"pie">>)>>)>>,
          <<>>}

\* the last line of a file may lack its line break
LoadFiles ==
    {LET body == Flatten([i \in 1..Len(ls) |-> ls[i] \o <<NL>>])
     IN  IF cut /\ body # <<>> THEN SubSeq(body, 1, Len(body) - 1) ELSE body :
        ls \in SeqsUpTo(LoadLines, MaxRecords), cut \in BOOLEAN}

\* response texts: pieces around the marker, among them the marker without
\* its colon
Pieces == {Marker, SubSeq(Marker, 1, Len(Marker) - 1), <<" ">>, <<"\n">>, <<"4", "2">>,
           <<"b", "l", "a", "h", " ", "b", "l", "a", "h">>}
Texts == {Flatten(ps) : ps \in SeqsUpTo(Pieces, MaxPieces)}

\* agent.run returns an AgentOutput; the code also accepts a plain str
ResponseOf(type, text) == [type |-> type, value |-> text]
AllResponses == {ResponseOf(ty, t) : ty \in {"str", "AgentOutput"}, t \in Texts}
SomeResponses ==
    {ResponseOf("AgentOutput",
                <<"b", "l", "a", "h", " ", "b", "l", "a", "h", "\n">> \o Marker
                    \o <<" ", "4", "2">>),
     ResponseOf("str", <<"4", "2", "\n">>)}

\* str(response)
PyStr(r) == r.value

OcrChars == {"a", " ", "\n"}
OcrTexts == SeqsUpTo(OcrChars, MaxOcrLen)
ImagePaths == {"img.png", "missing.png", "notes.txt"}
OcrEnvs ==
    {[path |-> p, open |-> o, ocr |-> c] :
        p \in ImagePaths,
        o \in {[exc |-> "", text |-> <<>>],
               [exc |-> "FileNotFoundError", text |-> <<"No such file or directory">>],
               [exc |-> "UnidentifiedImageError", text |-> <<"cannot identify image file">>]},
        c \in {[exc |-> "", text |-> t] : t \in OcrTexts}
              \cup {[exc |-> "TesseractError", text |-> <<"tesseract failed">>],
                    [exc |-> "TesseractNotFoundError",
                     text |-> <<"tesseract is not installed">>]}}

(***************************************************************************)
(* The script: module-level loading, then main().                          *)
(***************************************************************************)
\* with open(...) as f: json_list = list(f)
ReadFile ==
    /\ pc = "load"
    /\ json_list' = Lines(file)
    /\ pc' = IF Lines(file) = <<>> THEN "docs" ELSE "parse"
    /\ UNCHANGED <<file, json_QA, docs, index, builds, agent, runs, calls,
                   lastQuery, lastRanking, lastResults, lastReturn, response,
                   answer, stdout, err, ocrEnv, ocrOut>>

\* one iteration of: for json_str in json_list: json_QA.append(json.loads(json_str))
ParseLine ==
    /\ pc = "parse"
    /\ LET i == Len(json_QA) + 1
       IN  IF JsonDecodes(json_list[i])
           THEN /\ json_QA' = Append(json_QA, JsonLoads(json_list[i]))
                /\ pc' = IF i = Len(json_list) THEN "docs" ELSE "parse"
                /\ err' = err
           ELSE /\ err' = "JSONDecodeError"
                /\ pc' = "raised"
                /\ json_QA' = json_QA
    /\ UNCHANGED <<file, json_list, docs, index, builds, agent, runs, calls,
                   lastQuery, lastRanking, lastResults, lastReturn, response,
                   answer, stdout, ocrEnv, ocrOut>>

\* docs = [Document(...) for sample in json_QA]
BuildDocs ==
    /\ pc = "docs"
    /\ IF \A i \in 1..Len(json_QA) : DocKeys \subseteq DOMAIN json_QA[i]
       THEN /\ docs' = MakeDocs(json_QA)
            /\ pc' = "index"
            /\ err' = err
       ELSE /\ err' = "KeyError"
            /\ pc' = "raised"
            /\ docs' = docs
    /\ UNCHANGED <<file, json_list, json_QA, index, builds, agent, runs, calls,
                   lastQuery, lastRanking, lastResults, lastReturn, response,
                   answer, stdout, ocrEnv, ocrOut>>

\* variant: the index is built over the first documents only
BuildIndexTruncated ==
    /\ pc = "index"
    /\ index' = <<Take(docs, similarity_top_k)>>
    /\ builds' = builds + 1
    /\ pc' = "tool"
    /\ UNCHANGED <<file, json_list, json_QA, docs, agent, runs, calls,
                   lastQuery, lastRanking, lastResults, lastReturn, response,
                   answer, stdout, err, ocrEnv, ocrOut>>

\* bm25_retriever = BM25Retriever.from_defaults(nodes=docs); what the
\* library does with no node at all is open: it builds an empty index or fails
BuildIndex ==
    /\ pc = "index"
    /\ \/ /\ index' = <<docs>>
          /\ builds' = builds + 1
          /\ pc' = "tool"
          /\ err' = err
       \/ /\ docs = <<>>
          /\ err' = "IndexError"
          /\ pc' = "raised"
          /\ UNCHANGED <<index, builds>>
    /\ UNCHANGED <<file, json_list, json_QA, docs, agent, runs, calls,
                   lastQuery, lastRanking, lastResults, lastReturn, response,
                   answer, stdout, ocrEnv, ocrOut>>

\* answer_info_tool = FunctionTool.from_defaults(...); asyncio.run(main())
MakeTool ==
    /\ pc = "tool"
    /\ pc' = "main"
    /\ UNCHANGED <<file, json_list, json_QA, docs, index, builds, agent, runs,
                   calls, lastQuery, lastRanking, lastResults, lastReturn,
                   response, answer, stdout, err, ocrEnv, ocrOut>>

\* agent = create_agent(llm_model="qwen-qwq-32b")
MainCreateAgent ==
    /\ pc = "main"
    /\ agent' = <<create_agent("qwen-qwq-32b")>>
    /\ pc' = "call"
    /\ UNCHANGED <<file, json_list, json_QA, docs, index, builds, runs, calls,
                   lastQuery, lastRanking, lastResults, lastReturn, response,
                   answer, stdout, err, ocrEnv, ocrOut>>

\* agent.run(user_msg=question) is entered
MainRun ==
    /\ pc = "call"
    /\ runs' = runs + 1
    /\ pc' = "run"
    /\ UNCHANGED <<file, json_list, json_QA, docs, index, builds, agent, calls,
                   lastQuery, lastRanking, lastResults, lastReturn, response,
                   answer, stdout, err, ocrEnv, ocrOut>>

\* during the run the runtime calls the agent's tool, get_answer_info_retriever
ToolCall ==
    /\ pc = "run"
    /\ RetrieverTool \in {agent[1].tools[i] : i \in 1..Len(agent[1].tools)}
    /\ calls < MaxCalls
    /\ \E q \in Queries : \E r \in Rankings(index[1], q) :
          /\ lastQuery' = q
          /\ lastRanking' = r
          /\ lastResults' = Retrieve(r)
          /\ lastReturn' = AnswerInfo(index[1], Retrieve(r))
    /\ calls' = calls + 1
    /\ UNCHANGED <<pc, file, json_list, json_QA, docs, index, builds, agent,
                   runs, response, answer, stdout, err, ocrEnv, ocrOut>>

\* response = await agent.run(...) completes
RunReturns(S) ==
    /\ pc = "run"
    /\ \E r \in S : response' = <<r>>
    /\ pc' = "post"
    /\ UNCHANGED <<file, json_list, json_QA, docs, index, builds, agent, runs,
                   calls, lastQuery, lastRanking, lastResults, lastReturn,
                   answer, stdout, err, ocrEnv, ocrOut>>

\* variant: a failed run is tried again
RunFailsRetried ==
    /\ pc = "run"
    /\ pc' = "call"
    /\ UNCHANGED <<file, json_list, json_QA, docs, index, builds, agent, runs,
                   calls, lastQuery, lastRanking, lastResults, lastReturn,
                   response, answer, stdout, err, ocrEnv, ocrOut>>

\* the awaited run raises: main has no handler
RunFails ==
    /\ pc = "run"
    /\ err' = "RunError"
    /\ pc' = "raised"
    /\ UNCHANGED <<file, json_list, json_QA, docs, index, builds, agent, runs,
                   calls, lastQuery, lastRanking, lastResults, lastReturn,
                   response, answer, stdout, ocrEnv, ocrOut>>

\* raw = response or str(response); answer = ...
PostProcess ==
    /\ pc = "post"
    /\ LET raw == IF response[1].type = "str" THEN response[1].value
                  ELSE PyStr(response[1])
       IN  answer' = <<ExtractAnswer(raw)>>
    /\ pc' = "print"
    /\ UNCHANGED <<file, json_list, json_QA, docs, index, builds, agent, runs,
                   calls, lastQuery, lastRanking, lastResults, lastReturn,
                   response, stdout, err, ocrEnv, ocrOut>>

\* print(f"\nFinal Answer: {answer}")
PrintAnswer ==
    /\ pc = "print"
    /\ stdout' = Append(stdout, <<"\nFinal Answer: ">> \o answer[1])
    /\ pc' = "done"
    /\ UNCHANGED <<file, json_list, json_QA, docs, index, builds, agent, runs,
                   calls, lastQuery, lastRanking, lastResults, lastReturn,
                   response, answer, err, ocrEnv, ocrOut>>

\* a call of the OCR tool function
OcrCall ==
    /\ \E env \in OcrEnvs :
          /\ ocrEnv' = <<env>>
          /\ ocrOut' = <<extract_text_from_image(env)>>
    /\ UNCHANGED <<pc, file, json_list, json_QA, docs, index, builds, agent,
                   runs, calls, lastQuery, lastRanking, lastResults, lastReturn,
                   response, answer, stdout, err>>

(***************************************************************************)
(* Specifications.                                                         *)
(***************************************************************************)
Start(f) ==
    /\ pc = "load"
    /\ file = f
    /\ json_list = <<>>
    /\ json_QA = <<>>
    /\ docs = <<>>
    /\ index = <<>>
    /\ builds = 0
    /\ agent = <<>>
    /\ runs = 0
    /\ calls = 0
    /\ lastQuery = <<>>
    /\ lastRanking = <<>>
    /\ lastResults = <<>>
    /\ lastReturn = <<>>
    /\ response = <<>>
    /\ answer = <<>>
    /\ stdout = <<>>
    /\ err = ""
    /\ ocrEnv = <<>>
    /\ ocrOut = <<>>

\* the state once the module level has run over file f
Imported(f, at) ==
    /\ pc = at
    /\ file = f
    /\ json_list = Lines(f)
    /\ json_QA = [i \in 1..Len(Lines(f)) |-> JsonLoads(Lines(f)[i])]
    /\ docs = MakeDocs([i \in 1..Len(Lines(f)) |-> JsonLoads(Lines(f)[i])])
    /\ index = <<MakeDocs([i \in 1..Len(Lines(f)) |-> JsonLoads(Lines(f)[i])])>>
    /\ builds = 1
    /\ calls = 0
    /\ lastQuery = <<>>
    /\ lastRanking = <<>>
    /\ lastResults = <<>>
    /\ lastReturn = <<>>
    /\ response = <<>>
    /\ answer = <<>>
    /\ stdout = <<>>
    /\ err = ""
    /\ ocrEnv = <<>>
    /\ ocrOut = <<>>

OneRecordFile == <<RecordText("t1", <<"apple">>, "a1"), NL>>

\* the whole script
Init == \E f \in Files : Start(f)

Next ==
    \/ ReadFile
    \/ ParseLine
    \/ BuildDocs
    \/ BuildIndex
    \/ MakeTool
    \/ MainCreateAgent
    \/ MainRun
    \/ ToolCall
    \/ RunReturns(SomeResponses)
    \/ RunFails
    \/ PostProcess
    \/ PrintAnswer

Spec == Init /\ [][Next]_vars

\* the module-level loading, over files of every shape
InitLoad == \E f \in LoadFiles : Start(f)

NextLoad == ReadFile \/ ParseLine \/ BuildDocs

SpecLoad == InitLoad /\ [][NextLoad]_vars

\* main from the moment agent.run is awaited, over every response text
InitExtract ==
    /\ Imported(OneRecordFile, "run")
    /\ agent = <<create_agent("qwen-qwq-32b")>>
    /\ runs = 1

NextExtract == RunReturns(AllResponses) \/ PostProcess \/ PrintAnswer

SpecExtract == InitExtract /\ [][NextExtract]_vars

\* the OCR tool function, called on an imported module
InitOcr ==
    /\ Imported(OneRecordFile, "main")
    /\ agent = <<>>
    /\ runs = 0

NextOcr == OcrCall

SpecOcr == InitOcr /\ [][NextOcr]_vars

(***************************************************************************)
(* Properties.                                                             *)
(***************************************************************************)
\* the positions of text s where the marker stands
MarkerStarts(s) ==
    {i \in 1..Len(s) :
        /\ i + Len(Marker) - 1 <= Len(s)
        /\ \A k \in 1..Len(Marker) : s[i + k - 1] = Marker[k]}

\* s from its first to its last character that is no whitespace
Trimmed(s) ==
    LET ink == {i \in 1..Len(s) : s[i] \notin Whitespace}
    IN  IF ink = {} THEN <<>>
        ELSE SubSeq(s, CHOOSE i \in ink : \A j \in ink : i <= j,
                       CHOOSE i \in ink : \A j \in ink : j <= i)

\* the text after the last marker of s
AfterLastMarker(s) ==
    LET m == CHOOSE i \in MarkerStarts(s) : \A j \in MarkerStarts(s) : j <= i
    IN  SubSeq(s, m + Len(Marker), Len(s))

ExampleText ==
    <<"b", "l", "a", "h", " ", "b", "l", "a", "h", "\n">> \o Marker \o <<" ", "4", "2">>

\* C1: the answer main extracts and prints is the whitespace-trimmed text
\* that follows the (last) marker of the response text when the text holds
\* the marker, and the whitespace-trimmed whole text when it holds none.
C1_FinalAnswerExtraction ==
    pc \in {"print", "done"} =>
        LET t == response[1].value
            expected == IF MarkerStarts(t) # {} THEN Trimmed(AfterLastMarker(t))
                        ELSE Trimmed(t)
        IN  /\ answer = <<expected>>
            /\ pc = "done" => stdout = <<<<"\nFinal Answer: ">> \o expected>>

C1_Witness ==
    /\ pc = "done"
    /\ response[1].value = ExampleText
    /\ answer = <<<<"4", "2">>>>
    /\ stdout = <<<<"\nFinal Answer: ", "4", "2">>>>

\* C10: the extracted answer holds no marker, and extracting again from the
\* extracted answer gives it back unchanged.
C10_ExtractionIdempotent ==
    pc \in {"print", "done"} =>
        /\ MarkerStarts(answer[1]) = {}
        /\ ExtractAnswer(answer[1]) = answer[1]

C10_Witness ==
    /\ pc = "print"
    /\ Cardinality(MarkerStarts(response[1].value)) >= 2
    /\ answer[1] # <<>>

\* the failure an OCR call meets first, if any
OcrFailure(env) ==
    IF env.open.exc # "" THEN <<env.open>>
    ELSE IF env.ocr.exc # "" THEN <<env.ocr>>
    ELSE <<>>

\* C2: extract_text_from_image never raises; it returns the labelled text
\* when opening and OCR succeed and the labelled error description when
\* either fails.
C2_OcrNeverRaises ==
    ocrOut # <<>> =>
        /\ ocrOut[1].kind = "return"
        /\ OcrFailure(ocrEnv[1]) = <<>> =>
              ocrOut[1].value = <<OkLabel>> \o ocrEnv[1].ocr.text
        /\ OcrFailure(ocrEnv[1]) # <<>> =>
              ocrOut[1].value = <<ErrLabel>> \o OcrFailure(ocrEnv[1])[1].text

C2_Witness ==
    /\ ocrOut # <<>>
    /\ ocrEnv[1].open.exc = ""
    /\ ocrEnv[1].ocr.exc = "TesseractError"
    /\ ocrOut[1] = [kind |-> "return", value |-> <<ErrLabel, "tesseract failed">>]

\* the words of loaded record i
RecordWords(i) ==
    UNION {{json_QA[i][k][j] : j \in 1..Len(json_QA[i][k])} : k \in DOMAIN json_QA[i]}

QueryWords == {lastQuery[j] : j \in 1..Len(lastQuery)}

Matching == {i \in 1..Len(json_QA) : QueryWords \cap RecordWords(i) # {}}

\* C3: a query that shares no term with any loaded record gets the fixed
\* "no match" string.
C3_NoMatchWithoutSharedTerm ==
    (calls > 0 /\ Matching = {}) => lastReturn = NoMatch

\* C4: a query identical to the stored question of a loaded record gets a
\* result that contains the answer text of that record.
C4_ExactQuestionFound ==
    calls > 0 =>
        \A i \in 1..Len(json_QA) :
            lastQuery = json_QA[i]["Question"]
                => Contains(lastReturn, json_QA[i]["Final answer"])

\* the matching records in the order the scores rank them
RankedMatches == SelectSeq(lastRanking, LAMBDA i : i \in Matching)

\* C6: when a record matches, the result is the texts of the 3 best-ranked
\* matching records (of all of them when fewer than 3 match), in ranking
\* order, joined by a blank line.
C6_TopThreeMatches ==
    (calls > 0 /\ Matching # {}) =>
        lastReturn =
            Join([j \in 1..Len(Take(RankedMatches, 3)) |-> docs[RankedMatches[j]].text],
                 <<"\n\n">>)

\* the JSON object texts of the file, in file order
ObjectsOf(f) == SelectSeq(f, LAMBDA t : t.kind = "obj")

\* a file of well-formed lines: every line holds one JSON object, which has
\* each of the three fields once
WellFormed(f) ==
    /\ \A i \in 1..Len(f) :
          /\ f[i].kind = "obj" => (i = Len(f) \/ f[i + 1] = NL)
          /\ f[i] = NL => (i > 1 /\ f[i - 1].kind = "obj")
    /\ \A i \in 1..Len(f) : \A k \in DocKeys :
          f[i].kind = "obj" =>
              Cardinality({j \in 1..Len(f[i].members) : f[i].members[j][1] = k}) = 1

\* the value written for key k in JSON object text o
Field(o, k) == o.members[CHOOSE j \in 1..Len(o.members) : o.members[j][1] = k][2]

\* C5: N well-formed lines load into exactly N records and N documents, in
\* file order, the i-th carrying the task_id, question and answer of line i.
C5_LoadsEveryLine ==
    (pc = "index" /\ WellFormed(file)) =>
        LET objs == ObjectsOf(file)
        IN  /\ Len(json_QA) = Len(objs)
            /\ Len(docs) = Len(objs)
            /\ \A i \in 1..Len(objs) :
                  /\ json_QA[i]["task_id"] = Field(objs[i], "task_id")
                  /\ json_QA[i]["Question"] = Field(objs[i], "Question")
                  /\ json_QA[i]["Final answer"] = Field(objs[i], "Final answer")
                  /\ docs[i].task_id = Field(objs[i], "task_id")
                  /\ docs[i].question = Field(objs[i], "Question")
                  /\ docs[i].text = <<"Final", "Answer:">> \o Field(objs[i], "Final answer")

C5_Witness ==
    /\ pc = "index"
    /\ WellFormed(file)
    /\ Len(docs) = 3
    /\ Last(file) # NL
    /\ docs[1].task_id = <<"t2">>
    /\ docs[2].task_id = <<"t3">>
    /\ docs[3].task_id = <<"t1">>

ToolSet(a) == {a.tools[i] : i \in 1..Len(a.tools)}

C8_SingleRunThenPrint ==
    /\ runs <= 1
    /\ runs = 1 =>
          /\ json_list = Lines(file)
          /\ Len(json_QA) = Len(json_list)
          /\ Len(docs) = Len(json_QA)
          /\ builds = 1
          /\ index # <<>>
          /\ agent # <<>>
    /\ Len(stdout) <= 1
    /\ stdout # <<>> => (runs = 1 /\ response # <<>> /\ pc = "done")
    /\ response # <<>> => runs = 1
    /\ err = "RunError" => (pc = "raised" /\ stdout = <<>> /\ response = <<>>)

C8_Witness ==
    /\ pc = "done"
    /\ runs = 1
    /\ calls > 0
    /\ Len(stdout) = 1

C8_WitnessFailure ==
    /\ pc = "raised"
    /\ err = "RunError"
    /\ runs = 1

\* C9: once built the index holds exactly the documents of the loaded
\* records; it is built once, and no later step changes the records, the
\* documents or the index.
C9_IndexReflectsRecords ==
    /\ [](/\ builds <= 1
          /\ index # <<>> =>
                /\ builds = 1
                /\ index[1] = docs
                /\ Len(docs) = Len(ObjectsOf(file))
                /\ \A i \in 1..Len(docs) :
                      /\ docs[i].task_id = json_QA[i]["task_id"]
                      /\ docs[i].question = json_QA[i]["Question"]
                      /\ docs[i].text = <<"Final", "Answer:">> \o json_QA[i]["Final answer"])
    /\ [][index # <<>> =>
             /\ index' = index
             /\ docs' = docs
             /\ json_QA' = json_QA
             /\ builds' = builds]_vars

C9_Witness ==
    /\ pc = "done"
    /\ calls = MaxCalls
    /\ index # <<>>
    /\ Len(index[1]) >= 2
    /\ lastReturn # NoMatch

====
